---- MODULE Spec2Model ----
(***************************************************************************)
(* Model of the e-commerce analytics pipeline:                             *)
(*   - EventGenerator (scripts/generate_events.py): the per-user session   *)
(*     state machine _get_or_create_session driven by generate();          *)
(*   - validate_events / ValidationResult (scripts/data_validation.py);    *)
(*   - ETLPipeline (scripts/etl_pipeline.py): run() with its stages        *)
(*     _setup_database, _extract, _validate, _run_quality_checks,          *)
(*     _transform and _load.                                               *)
(* Timestamps are whole minutes; a calendar date is timestamp \div         *)
(* MinutesPerDay; money is a whole number of currency units.               *)
(***************************************************************************)
EXTENDS Integers, Sequences, FiniteSets, TLC

\* ------------------------------------------------------------------ bounds
MaxEvents == 3
MaxTick == 4
MaxBatch == 3
MaxAggBatch == 2
MaxRerunBatch == 2
MaxRateTotal == 50
MaxDepth == 2
MaxTextLen == 4
MaxCheckerBatch == 3
MaxCalls == 2

\* ------------------------------------------------------- program constants
DefaultTimeout == 30
DefaultMinValidity == 95
MaxRevenue == 100000
MinutesPerDay == 1440

NULL == "NULL"

\* ------------------------------------------------------------------- state
VARIABLES
    \* EventGenerator
    num_events,               \* EventGenerator.num_events
    session_timeout_minutes,  \* EventGenerator.session_timeout_minutes
    active_sessions,          \* EventGenerator.active_sessions: dict user_id -> session
    events,                   \* the list `events` built by generate(), in processing order
    uuid_counter,             \* number of session ids drawn from uuid.uuid4() so far
    assign_log,               \* history of the calls of _get_or_create_session
    gen_pc,                   \* position of generate(): "idle", "loop", "done", "failed"
    gen_df,                   \* the DataFrame returned by generate()
    \* ETLPipeline
    source,                   \* the events_*.parquet partitions in source_dir
    config,                   \* PipelineConfig
    pc,                       \* position of run()
    conn,                     \* ETLPipeline.conn: "none", "open", "closed"
    metrics,                  \* PipelineMetrics
    raw_df,                   \* result of _extract
    valid_df,                 \* result of _validate
    tables,                   \* result of _transform: the dict `transformed`
    load_i,                   \* number of tables _load has completed
    load_step,                \* position inside one iteration of _load's loop
    total_loaded,             \* local total_loaded of _load
    parquet_files,            \* <table>.parquet files present in target_dir, written by this run
    db_tables,                \* analytics.<table> tables present in DuckDB, created by this run
    failed_in,                \* the stage in which run() raised, or NULL
    validation_result,        \* the ValidationResult `result` of _validate
    clock,                    \* the latest value read from datetime.now()
    stored,                   \* contents of target_dir and of the analytics schema
    history,                  \* the runs that ended before the current one
    \* DataQualityChecker
    checker                   \* a DataQualityChecker: its df, its issues, and the
                              \* lists its calls of run_all_checks returned

gen_vars == <<num_events, session_timeout_minutes, active_sessions, events,
              uuid_counter, assign_log, gen_pc, gen_df>>
etl_vars == <<source, config, pc, conn, metrics, raw_df, valid_df, tables,
              load_i, load_step, total_loaded, parquet_files, db_tables, failed_in,
              validation_result, clock, stored, history>>
checker_vars == <<checker>>
vars == <<gen_vars, etl_vars, checker_vars>>

\* ----------------------------------------------------------------- helpers
RECURSIVE SumSeq(_)
SumSeq(s) == IF s = <<>> THEN 0 ELSE Head(s) + SumSeq(Tail(s))

RECURSIVE SelectSeqBy(_, _)
\* the subsequence of s at the positions in keep (boolean mask), order kept
SelectSeqBy(s, keep) ==
    IF s = <<>> THEN <<>>
    ELSE (IF Head(keep) THEN <<Head(s)>> ELSE <<>>) \o SelectSeqBy(Tail(s), Tail(keep))

\* d[k] = v on a dict
Put(d, k, v) == [x \in DOMAIN d \cup {k} |-> IF x = k THEN v ELSE d[x]]
\* del d[k] on a dict, where present
Remove(d, k) == [x \in DOMAIN d \ {k} |-> d[x]]

\* ========================================================== EventGenerator
UserPool == {"USER_1", "USER_2"}
GenEventTypes == {"page_view", "purchase"}
\* timestamps _generate_timestamp can return: multiples of half the timeout
GenTimes == {t * (DefaultTimeout \div 2) : t \in 0..MaxTick}
Timeouts == {0, DefaultTimeout}
PurchaseTotal == 7

\* the empty dict {}
EmptyDict == [k \in {} |-> NULL]

\* (timestamp - last_activity).total_seconds()
total_seconds(timestamp, last_activity) == (timestamp - last_activity) * 60

\* generate_events.py:344, the test "session is still active"
session_active(timestamp, last_activity, timeout_minutes) ==
    total_seconds(timestamp, last_activity) < timeout_minutes * 60

\* a session id derived from the user instead of a fresh uuid4
new_session_id_per_user(counter, user_id) == IF user_id = "USER_1" THEN 1 ELSE 2

\* generate_events.py:350, a fresh uuid4-based session id
new_session_id(counter, user_id) == counter + 1

\* _get_or_create_session: the session stored for user_id after the call,
\* and whether the call took the "create new session" branch
get_or_create_session(sessions, user_id, timestamp, timeout_minutes, counter) ==
    IF user_id \in DOMAIN sessions
       /\ session_active(timestamp, sessions[user_id].last_activity, timeout_minutes)
    THEN [created |-> FALSE,
          session |-> [sessions[user_id] EXCEPT !.last_activity = timestamp,
                                                !.event_count = @ + 1]]
    ELSE [created |-> TRUE,
          session |-> [session_id |-> new_session_id(counter, user_id),
                       start_time |-> timestamp,
                       last_activity |-> timestamp,
                       event_count |-> 1]]

\* generate_events.py:541, revenue = properties.get("total", 0.0)
event_revenue(event_type) == IF event_type = "purchase" THEN PurchaseTotal ELSE 0

GenInit ==
    /\ num_events \in 0..MaxEvents
    /\ session_timeout_minutes \in Timeouts
    /\ active_sessions = EmptyDict
    /\ events = <<>>
    /\ uuid_counter = 0
    /\ assign_log = <<>>
    /\ gen_pc = "loop"
    /\ gen_df = <<>>

GenIdle ==
    /\ num_events = 0
    /\ session_timeout_minutes = DefaultTimeout
    /\ active_sessions = EmptyDict
    /\ events = <<>>
    /\ uuid_counter = 0
    /\ assign_log = <<>>
    /\ gen_pc = "idle"
    /\ gen_df = <<>>

\* one iteration of the loop of generate()
GenerateEvent ==
    /\ gen_pc = "loop"
    /\ Len(events) < num_events
    /\ \E user_id \in UserPool, event_type \in GenEventTypes, timestamp \in GenTimes :
         LET had == user_id \in DOMAIN active_sessions
             r == get_or_create_session(active_sessions, user_id, timestamp,
                                        session_timeout_minutes, uuid_counter)
             session == r.session
         IN /\ active_sessions' =
                   [u \in DOMAIN active_sessions \cup {user_id} |->
                       IF u = user_id THEN session ELSE active_sessions[u]]
            /\ uuid_counter' = IF r.created THEN uuid_counter + 1 ELSE uuid_counter
            /\ assign_log' = Append(assign_log,
                   [user_id |-> user_id,
                    timestamp |-> timestamp,
                    had_session |-> had,
                    last_activity |-> IF had THEN active_sessions[user_id].last_activity
                                             ELSE timestamp,
                    created |-> r.created,
                    session_id |-> session.session_id])
            /\ events' = Append(events,
                   [event_id |-> Len(events) + 1,
                    event_type |-> event_type,
                    user_id |-> user_id,
                    session_id |-> session.session_id,
                    timestamp |-> timestamp,
                    revenue |-> event_revenue(event_type)])
    /\ UNCHANGED <<num_events, session_timeout_minutes, gen_pc, gen_df>>
    /\ UNCHANGED etl_vars
    /\ UNCHANGED checker_vars

RECURSIVE SortedOrders(_, _)
\* the orders in which sort_values("timestamp") can leave the rows I of evs:
\* ascending timestamps, rows with equal timestamps in any order
SortedOrders(evs, I) ==
    IF I = {} THEN {<<>>}
    ELSE UNION {{<<i>> \o rest : rest \in SortedOrders(evs, I \ {i})} :
                   i \in {x \in I : \A y \in I : evs[x].timestamp <= evs[y].timestamp}}

\* the end of generate(): DataFrame(events), sort by timestamp, reset_index
FinishGenerate ==
    /\ gen_pc = "loop"
    /\ Len(events) = num_events
    /\ num_events > 0
    /\ \E p \in SortedOrders(events, DOMAIN events) :
         gen_df' = [i \in DOMAIN events |-> events[p[i]]]
    /\ gen_pc' = "done"
    /\ UNCHANGED <<num_events, session_timeout_minutes, active_sessions, events,
                   uuid_counter, assign_log>>
    /\ UNCHANGED etl_vars
    /\ UNCHANGED checker_vars

\* generate() with num_events = 0: DataFrame([]) has no "timestamp" column
FailGenerate ==
    /\ gen_pc = "loop"
    /\ num_events = 0
    /\ gen_pc' = "failed"
    /\ UNCHANGED <<num_events, session_timeout_minutes, active_sessions, events,
                   uuid_counter, assign_log, gen_df>>
    /\ UNCHANGED etl_vars
    /\ UNCHANGED checker_vars


\* ========================================================= data_validation
EventTypeEnum == {"page_view", "product_view", "add_to_cart", "remove_from_cart",
                  "begin_checkout", "purchase", "search", "signup", "login"}
\* identifiers matching the patterns of EventSchema
WellFormedEventIds == {"EVT_1", "EVT_2", "EVT_3"}
WellFormedUserIds == UserPool
WellFormedSessionIds == {"SES_1", "SES_2"}
WellFormedProductIds == {"PROD_1", "PROD_2"}

\* ---- Python values of the field properties, and JSON texts
\* A str is the sequence of its tokens: punctuation, the number 1, the
\* string literals "k" and "v" (with their quotes) and the bare words k, v.
Words == {"k", "v"}
Literal(w) == IF w = "k" THEN "\"k\"" ELSE "\"v\""
Literals == {Literal(w) : w \in Words}
Unquote(tok) == CHOOSE w \in Words : Literal(w) = tok
Tokens == {"{", "}", "[", "]", ":", ",", "1"} \cup Literals \cup Words

PyStr(chars) == [tag |-> "str", val |-> chars]
PyInt(n) == [tag |-> "int", val |-> n]
PyList(items) == [tag |-> "list", val |-> items]
PyDict(items) == [tag |-> "dict", val |-> items]

RECURSIVE PyValues(_)
\* the values json.dumps can write, nested to at most `depth` levels
PyValues(depth) ==
    LET atoms == {PyInt(1), PyStr(<<"k">>)}
    IN IF depth = 0 THEN atoms
       ELSE LET inner == PyValues(depth - 1)
            IN atoms
               \cup {PyList(<<>>)} \cup {PyList(<<x>>) : x \in inner}
               \cup {PyDict(items) : items \in UNION {[ks -> inner] : ks \in SUBSET Words}}

RECURSIVE json_dumps(_)
\* json.dumps(v)
json_dumps(v) ==
    CASE v.tag = "int" -> <<"1">>
      [] v.tag = "str" -> <<Literal(v.val[1])>>
      [] v.tag = "list" ->
            <<"[">> \o (IF v.val = <<>> THEN <<>> ELSE json_dumps(v.val[1])) \o <<"]">>
      [] v.tag = "dict" ->
            LET member(w) == <<Literal(w), ":">> \o json_dumps(v.val[w])
                ks == DOMAIN v.val
            IN <<"{">>
               \o (IF "k" \in ks THEN member("k") ELSE <<>>)
               \o (IF ks = Words THEN <<",">> ELSE <<>>)
               \o (IF "v" \in ks THEN member("v") ELSE <<>>)
               \o <<"}">>

\* json.JSONDecodeError, and a value decoded up to position next - 1
DecodeError == [ok |-> FALSE, val |-> PyInt(0), next |-> 0]
Decoded(v, next) == [ok |-> TRUE, val |-> v, next |-> next]
At(s, i) == IF i \in DOMAIN s THEN s[i] ELSE NULL

RECURSIVE parse_value(_, _)
RECURSIVE parse_array(_, _, _)
RECURSIVE parse_object(_, _, _)
\* the elements of an array from position i on, up to the closing bracket
parse_array(s, i, items) ==
    LET after(r) ==
            IF ~r.ok THEN DecodeError
            ELSE IF At(s, r.next) = "," THEN parse_array(s, r.next + 1, Append(items, r.val))
            ELSE IF At(s, r.next) = "]" THEN Decoded(PyList(Append(items, r.val)), r.next + 1)
            ELSE DecodeError
    IN after(parse_value(s, i))

\* the members of an object from position i on, up to the closing brace;
\* a key given twice keeps the later value
parse_object(s, i, items) ==
    IF At(s, i) \notin Literals \/ At(s, i + 1) # ":" THEN DecodeError
    ELSE LET member(r, pairs) ==
                 IF At(s, r.next) = "," THEN parse_object(s, r.next + 1, pairs)
                 ELSE IF At(s, r.next) = "}" THEN Decoded(PyDict(pairs), r.next + 1)
                 ELSE DecodeError
             after(r) ==
                 IF ~r.ok THEN DecodeError
                 ELSE member(r, Put(items, Unquote(s[i]), r.val))
         IN after(parse_value(s, i + 2))

\* one JSON value starting at position i
parse_value(s, i) ==
    CASE At(s, i) = "1" -> Decoded(PyInt(1), i + 1)
      [] At(s, i) \in Literals -> Decoded(PyStr(<<Unquote(s[i])>>), i + 1)
      [] At(s, i) = "[" ->
            IF At(s, i + 1) = "]" THEN Decoded(PyList(<<>>), i + 2)
            ELSE parse_array(s, i + 1, <<>>)
      [] At(s, i) = "{" ->
            IF At(s, i + 1) = "}" THEN Decoded(PyDict(EmptyDict), i + 2)
            ELSE parse_object(s, i + 1, EmptyDict)
      [] OTHER -> DecodeError

\* json.loads(s): one value and nothing after it
json_loads(s) ==
    LET whole(r) == IF r.ok /\ r.next = Len(s) + 1 THEN r ELSE DecodeError
    IN whole(parse_value(s, 1))

\* EventSchema.parse_properties, the "before" validator: ok is FALSE when it
\* raises ValueError
parse_properties(v) ==
    IF v.tag = "str"
    THEN LET returned(r) == [ok |-> r.ok, val |-> r.val]
         IN returned(json_loads(v.val))
    ELSE [ok |-> TRUE, val |-> v]

\* data_validation.py:73, properties: dict[str, Any] | str, applied to what
\* parse_properties returned
properties_field(v) ==
    LET field(parsed) ==
            [ok |-> parsed.ok /\ parsed.val.tag \in {"dict", "str"}, val |-> parsed.val]
    IN field(parse_properties(v))

\* the schema with session_id: str | None = None
EventSchema_session_optional(record) ==
    /\ record.event_id \in WellFormedEventIds
    /\ record.event_type \in EventTypeEnum
    /\ record.user_id \in WellFormedUserIds
    /\ record.session_id = NULL \/ record.session_id \in WellFormedSessionIds
    /\ record.product_id = NULL \/ record.product_id \in WellFormedProductIds
    /\ record.revenue >= 0
    /\ record.revenue <= MaxRevenue
    /\ properties_field(record.properties).ok

\* EventSchema(**record) succeeds
EventSchema(record) ==
    /\ record.event_id \in WellFormedEventIds
    /\ record.event_type \in EventTypeEnum
    /\ record.user_id \in WellFormedUserIds
    /\ record.session_id \in WellFormedSessionIds
    /\ record.product_id = NULL \/ record.product_id \in WellFormedProductIds
    /\ record.revenue >= 0
    /\ record.revenue <= MaxRevenue
    /\ properties_field(record.properties).ok

\* EventSchema(**record).model_dump()
model_dump(record) ==
    [record EXCEPT !.properties = properties_field(record.properties).val]

\* a rational number num/den; den = 0 stands for the IEEE results inf and NaN
Rat(num, den) == [num |-> num, den |-> den]
RatLess(a, b) == a.num * b.den < b.num * a.den
RatEq(a, b) == a.num * b.den = b.num * a.den
IsFinite(r) == r.den # 0

\* ---- Python floats (IEEE 754 binary64) in valid_records / total_records * 100
\* A float is written as the exact value num / den it stands for together
\* with err, its distance from that value in units of its last place:
\* the float is num / den + err * ulp.
MantissaBits == 52
LowBits == 8
Percent == 100

Flt(num, den, err) == [num |-> num, den |-> den, err |-> err]
Exact(num, den) == Flt(num, den, Rat(0, 1))

\* float < x for a whole number x (which a double holds exactly)
FloatLess(f, x) == f.num < x * f.den \/ (f.num = x * f.den /\ f.err.num < 0)

Pow2(k) == LET p[i \in 0..k] == IF i = 0 THEN 1 ELSE 2 * p[i - 1] IN p[k]

\* the least e >= 1 with 2^e * n >= d, for 0 < n < d: n / d = 1.xxx * 2^-e
norm_shift(n, d) == CHOOSE e \in 1..d : Pow2(e) * n >= d /\ Pow2(e - 1) * n < d

\* the first k >= LowBits binary digits of n / d after the point, taken
\* LowBits digits at a time: the remainder left and the last LowBits digits
\* of the quotient
long_division(n, d, k) ==
    LET chunks == k \div LowBits
        rem[i \in 0..chunks] ==
            IF i = 0 THEN (Pow2(k % LowBits) * n) % d
            ELSE (Pow2(LowBits) * rem[i - 1]) % d
    IN [r |-> rem[chunks],
        qlow |-> (Pow2(LowBits) * rem[chunks - 1]) \div d]

\* n / d for 0 < n < d, rounded to nearest, ties to even: the exponent, the
\* last LowBits bits of the 53-bit significand, whether it was rounded up,
\* and the rounding error as errnum / d of a unit in the last place
float_div(n, d) ==
    LET e == norm_shift(n, d)
        q == long_division(n, d, MantissaBits + e)
        up == IF 2 * q.r > d THEN 1
              ELSE IF 2 * q.r = d THEN q.qlow % 2
              ELSE 0
    IN [e |-> e,
        mlow |-> (q.qlow + up) % Pow2(LowBits),
        up |-> up,
        errnum |-> IF up = 1 THEN d - q.r ELSE 0 - q.r]

\* float_div(n, d) * 100, rounded to nearest, ties to even. The product of
\* the 53-bit significand m with 100 = 1.5625 * 2^6 has 7 bits too many when
\* m * 100 >= 2^59, that is when 2^e * n / d >= 32 / 25, and 6 otherwise;
\* the bits dropped and the last bit kept depend on the low bits of m only.
\* The result is given against the exact value 100 * n / d.
float_times_100(q, n, d) ==
    LET c == (Percent \div 4) * Pow2(q.e) * n
        wide == c > 32 * d \/ (c = 32 * d /\ q.up = 1)
        s == IF wide THEN 7 ELSE 6
        low == (q.mlow * Percent) % Pow2(s)
        lsb == ((q.mlow * Percent) % Pow2(s + 1)) \div Pow2(s)
        up == IF 2 * low > Pow2(s) THEN 1
              ELSE IF 2 * low = Pow2(s) THEN lsb
              ELSE 0
        d2 == IF up = 1 THEN Pow2(s) - low ELSE 0 - low
    IN Flt(Percent * n, d, Rat(Percent * q.errnum + d2 * d, d * Pow2(s)))

\* ValidationResult.validity_rate
validity_rate(result) ==
    IF result.total_records = 0 THEN Exact(0, 1)
    ELSE IF result.valid_records = 0 \/ result.valid_records = result.total_records
    THEN Exact(result.valid_records * Percent, result.total_records)
    ELSE float_times_100(float_div(result.valid_records, result.total_records),
                         result.valid_records, result.total_records)

\* a loop that gives up at the first record that fails the schema
validate_events_stop_at_first_error(df) ==
    LET bad == {i \in DOMAIN df : ~EventSchema(df[i])}
        first_bad == IF bad = {} THEN Len(df) + 1
                     ELSE CHOOSE i \in bad : \A j \in bad : i <= j
        valid_records == [i \in 1..(first_bad - 1) |-> model_dump(df[i])]
        invalid == IF bad = {} THEN 0 ELSE 1
    IN [valid_df |-> valid_records,
        result |-> [total_records |-> Len(df), valid_records |-> Len(valid_records),
                    invalid_records |-> invalid,
                    error_summary |-> IF invalid = 0 THEN EmptyDict
                                      ELSE [k \in {"ValidationError"} |-> invalid]]]

\* validate_events(df) with raise_on_error = False
validate_events(df) ==
    LET keep == [i \in DOMAIN df |-> EventSchema(df[i])]
        kept == SelectSeqBy(df, keep)
        valid_records == [i \in DOMAIN kept |-> model_dump(kept[i])]
        invalid == Len(df) - Len(valid_records)
    IN [valid_df |-> valid_records,
        result |-> [total_records |-> Len(df),
                    valid_records |-> Len(valid_records),
                    invalid_records |-> invalid,
                    error_summary |-> IF invalid = 0 THEN EmptyDict
                                      ELSE [k \in {"ValidationError"} |-> invalid]]]


\* ============================================================== _transform
Min(S) == CHOOSE x \in S : \A y \in S : x <= y
Max(S) == CHOOSE x \in S : \A y \in S : x >= y

\* Series.dt.date of a timestamp
event_date(timestamp) == timestamp \div MinutesPerDay

\* ("event_type", lambda x: (x == t).sum()) over the rows I of df
count_type(df, I, t) == Cardinality({i \in I : df[i].event_type = t})

\* a sum that takes the revenue of purchase events only
sum_revenue_purchases_only(df, I) ==
    SumSeq([i \in DOMAIN df |->
               IF i \in I /\ df[i].event_type = "purchase" THEN df[i].revenue ELSE 0])

\* ("revenue", "sum") over the rows I of df
sum_revenue(df, I) == SumSeq([i \in DOMAIN df |-> IF i \in I THEN df[i].revenue ELSE 0])

\* a / b on two pandas Series, element-wise: x / 0 is inf or NaN, never an error
Divide(a, b) == Rat(a, b)

\* the divisor without the replacement of 0
replace_0_1_missing(v) == v

\* Series.replace(0, 1)
replace_0_1(v) == IF v = 0 THEN 1 ELSE v

\* etl_pipeline.py:198-203
fct_events(df) ==
    [i \in DOMAIN df |->
        [event_id |-> df[i].event_id,
         event_type |-> df[i].event_type,
         user_id |-> df[i].user_id,
         session_id |-> df[i].session_id,
         timestamp |-> df[i].timestamp,
         product_id |-> df[i].product_id,
         category |-> df[i].category,
         revenue |-> df[i].revenue,
         event_date |-> event_date(df[i].timestamp),
         event_hour |-> (df[i].timestamp % MinutesPerDay) \div 60,
         day_of_week |-> event_date(df[i].timestamp) % 7,
         is_weekend |-> (event_date(df[i].timestamp) % 7) \in {5, 6}]]

\* etl_pipeline.py:206-227, one row per (session_id, user_id) group
fct_sessions(df) ==
    LET keys == {<<df[i].session_id, df[i].user_id>> : i \in DOMAIN df}
        row(k) ==
            LET I == {i \in DOMAIN df : df[i].session_id = k[1] /\ df[i].user_id = k[2]}
                session_start == Min({df[i].timestamp : i \in I})
                session_end == Max({df[i].timestamp : i \in I})
                purchases == count_type(df, I, "purchase")
            IN [session_id |-> k[1],
                user_id |-> k[2],
                session_start |-> session_start,
                session_end |-> session_end,
                event_count |-> Cardinality(I),
                page_views |-> count_type(df, I, "page_view"),
                product_views |-> count_type(df, I, "product_view"),
                add_to_carts |-> count_type(df, I, "add_to_cart"),
                purchases |-> purchases,
                total_revenue |-> sum_revenue(df, I),
                unique_products |-> Cardinality({df[i].product_id : i \in I} \ {NULL}),
                session_duration_seconds |-> (session_end - session_start) * 60,
                is_converted |-> purchases > 0]
    IN {row(k) : k \in keys}

\* etl_pipeline.py:230-247, one row per event_date group
fct_daily_metrics(df) ==
    LET dates == {event_date(df[i].timestamp) : i \in DOMAIN df}
        row(d) ==
            LET I == {i \in DOMAIN df : event_date(df[i].timestamp) = d}
                purchases == count_type(df, I, "purchase")
                unique_users == Cardinality({df[i].user_id : i \in I} \ {NULL})
                unique_sessions == Cardinality({df[i].session_id : i \in I} \ {NULL})
                total_revenue == sum_revenue(df, I)
            IN [event_date |-> d,
                total_events |-> Cardinality(I),
                unique_users |-> unique_users,
                unique_sessions |-> unique_sessions,
                page_views |-> count_type(df, I, "page_view"),
                product_views |-> count_type(df, I, "product_view"),
                add_to_carts |-> count_type(df, I, "add_to_cart"),
                purchases |-> purchases,
                total_revenue |-> total_revenue,
                conversion_rate |-> Divide(purchases, unique_sessions),
                avg_revenue_per_user |-> Divide(total_revenue, unique_users)]
    IN {row(d) : d \in dates}

\* etl_pipeline.py:250, df[df["product_id"].notna()]
\* the product rows taken to be those that also carry a category
product_events_with_category(df) ==
    {i \in DOMAIN df : df[i].product_id # NULL /\ df[i].category # NULL}

product_events(df) == {i \in DOMAIN df : df[i].product_id # NULL}

\* etl_pipeline.py:252-268, one row per (product_id, category) group;
\* groupby drops the rows whose key has a null component
fct_product_performance(df) ==
    LET P == {i \in product_events(df) : df[i].category # NULL}
        keys == {<<df[i].product_id, df[i].category>> : i \in P}
        row(k) ==
            LET I == {i \in P : df[i].product_id = k[1] /\ df[i].category = k[2]}
                view_count == count_type(df, I, "product_view")
                cart_adds == count_type(df, I, "add_to_cart")
                purchases == count_type(df, I, "purchase")
            IN [product_id |-> k[1],
                category |-> k[2],
                view_count |-> view_count,
                cart_adds |-> cart_adds,
                purchases |-> purchases,
                total_revenue |-> sum_revenue(df, I),
                unique_viewers |-> Cardinality({df[i].user_id : i \in I}),
                cart_rate |-> Divide(cart_adds, replace_0_1(view_count)),
                purchase_rate |-> Divide(purchases, replace_0_1(view_count))]
    IN {row(k) : k \in keys}

\* _transform(df) for a DataFrame that has its columns (a non-empty valid_df)
transform(df) ==
    LET has_products == Cardinality(product_events(df)) > 0
    IN [names |-> <<"fct_events", "fct_sessions", "fct_daily_metrics">>
                  \o (IF has_products THEN <<"fct_product_performance">> ELSE <<>>),
        fct_events |-> fct_events(df),
        fct_sessions |-> fct_sessions(df),
        fct_daily_metrics |-> fct_daily_metrics(df),
        fct_product_performance |-> IF has_products THEN fct_product_performance(df)
                                    ELSE {}]

NoTables ==
    [names |-> <<>>, fct_events |-> <<>>, fct_sessions |-> {},
     fct_daily_metrics |-> {}, fct_product_performance |-> {}]

\* a count that takes the rows of fct_events only
table_len_events_only(t, name) ==
    IF name = "fct_events" THEN Len(t.fct_events) ELSE 0

\* len(df) of a transformed table
table_len(t, name) ==
    CASE name = "fct_events" -> Len(t.fct_events)
      [] name = "fct_sessions" -> Cardinality(t.fct_sessions)
      [] name = "fct_daily_metrics" -> Cardinality(t.fct_daily_metrics)
      [] name = "fct_product_performance" -> Cardinality(t.fct_product_performance)

\* the DataFrame of a transformed table
table_rows(t, name) ==
    CASE name = "fct_events" -> t.fct_events
      [] name = "fct_sessions" -> t.fct_sessions
      [] name = "fct_daily_metrics" -> t.fct_daily_metrics
      [] name = "fct_product_performance" -> t.fct_product_performance

\* an empty target_dir and a database without analytics tables
EmptyStore == [parquet |-> EmptyDict, duckdb |-> EmptyDict]


\* ====================================================== DataQualityChecker
NullRateThresholdPct == 10
ZThreshold == 3
SuspiciousSessionSize == 1000
\* values of datetime.now() at the time of check_temporal_order
Clock == {MinutesPerDay, 3 * MinutesPerDay}

Issue(check, severity, count, column) ==
    [check |-> check, severity |-> severity, count |-> count, column |-> column]

\* duplicated(subset=["event_id"]) with keep="first": the first row of each
\* group of equal event_ids is not counted
check_duplicates_keep_first(df) ==
    LET duplicates == {i \in DOMAIN df :
                          \E j \in DOMAIN df : j < i /\ df[j].event_id = df[i].event_id}
    IN IF Cardinality(duplicates) > 0
       THEN <<[check |-> "duplicates", severity |-> "high",
               count |-> Cardinality(duplicates), column |-> NULL]>>
       ELSE <<>>

\* check_duplicates: rows whose event_id occurs more than once (keep=False)
check_duplicates(df) ==
    LET duplicates == {i \in DOMAIN df :
                          \E j \in DOMAIN df : j # i /\ df[j].event_id = df[i].event_id}
    IN IF Cardinality(duplicates) > 0
       THEN <<Issue("duplicates", "high", Cardinality(duplicates), NULL)>>
       ELSE <<>>

\* check_null_rates, over the columns that can hold nulls after validation
check_null_rates(df) ==
    LET null_product == Cardinality({i \in DOMAIN df : df[i].product_id = NULL})
        null_category == Cardinality({i \in DOMAIN df : df[i].category = NULL})
    IN (IF null_product * 100 > NullRateThresholdPct * Len(df)
        THEN <<Issue("null_rate", "medium", null_product, "product_id")>> ELSE <<>>)
       \o
       (IF null_category * 100 > NullRateThresholdPct * Len(df)
        THEN <<Issue("null_rate", "medium", null_category, "category")>> ELSE <<>>)

\* check_revenue_outliers: |x - mean| / std > z_threshold over the non-zero
\* revenues, with the sample standard deviation, in integer arithmetic
check_revenue_outliers(df) ==
    LET R == {i \in DOMAIN df : df[i].revenue > 0}
        n == Cardinality(R)
        S == sum_revenue(df, R)
        dev2(i) == (n * df[i].revenue - S) * (n * df[i].revenue - S)
        ss == SumSeq([i \in DOMAIN df |-> IF i \in R THEN dev2(i) ELSE 0])
        outliers == {i \in R : dev2(i) * (n - 1) > ZThreshold * ZThreshold * ss}
    IN IF n > 1 /\ ss > 0 /\ Cardinality(outliers) > 0
       THEN <<Issue("revenue_outliers", "low", Cardinality(outliers), NULL)>>
       ELSE <<>>

\* check_temporal_order: timestamps after now
check_temporal_order(df, now) ==
    LET future_events == {i \in DOMAIN df : df[i].timestamp > now}
    IN IF Cardinality(future_events) > 0
       THEN <<Issue("future_timestamps", "high", Cardinality(future_events), NULL)>>
       ELSE <<>>

\* check_session_integrity: sessions with more than 1000 events
check_session_integrity(df) ==
    LET suspicious_sessions ==
            {sid \in {df[i].session_id : i \in DOMAIN df} :
                Cardinality({i \in DOMAIN df : df[i].session_id = sid})
                    > SuspiciousSessionSize}
    IN IF Cardinality(suspicious_sessions) > 0
       THEN <<Issue("session_integrity", "medium", Cardinality(suspicious_sessions), NULL)>>
       ELSE <<>>

\* DataQualityChecker(events_df): self.df, self.issues = []; `returned` is
\* not a field of the object, it keeps what each call of run_all_checks
\* returned, as the list read at the moment of the return
DataQualityChecker(events_df) == [df |-> events_df, issues |-> <<>>, returned |-> <<>>]
NoChecker == DataQualityChecker(<<>>)

\* run_all_checks on a fresh DataQualityChecker
run_all_checks(df, now) ==
    check_duplicates(df) \o check_null_rates(df) \o check_revenue_outliers(df)
        \o check_temporal_order(df, now) \o check_session_integrity(df)


\* ============================================================= ETLPipeline
MinValidityRates == {0, 50, DefaultMinValidity}

Rec(event_id, event_type, user_id, session_id, timestamp, product_id, category, revenue) ==
    [event_id |-> event_id, event_type |-> event_type, user_id |-> user_id,
     session_id |-> session_id, timestamp |-> timestamp, product_id |-> product_id,
     category |-> category, revenue |-> revenue, properties |-> PyDict(EmptyDict)]

\* the records a source partition can hold
SourceRecords ==
    {Rec("EVT_1", "page_view", "USER_1", "SES_1", MinutesPerDay - 1, NULL, NULL, 0),
     Rec("EVT_2", "purchase", "USER_1", "SES_1", MinutesPerDay, NULL, NULL, 5),
     Rec("EVT_3", "add_to_cart", "USER_2", "SES_2", MinutesPerDay, "PROD_1", "Books", 0),
     Rec("EVT_3", "remove_from_cart", "USER_2", "SES_2", 2 * MinutesPerDay + 1,
         "PROD_1", NULL, 0),
     Rec("EVT_1", "invalid_type", "USER_1", "SES_1", 0, NULL, NULL, 0),
     Rec("EVT_2", "purchase", "USER_2", "SES_2", 0, NULL, NULL, 0 - 100),
     Rec("EVT_3", "page_view", "USER_2", NULL, 0, NULL, NULL, 0),
     Rec("invalid_id", "page_view", "USER_1", "SES_1", 0, NULL, NULL, 0)}

RECURSIVE SeqsUpTo(_, _)
\* the sequences over S of length at most n
SeqsUpTo(S, n) ==
    IF n = 0 THEN {<<>>}
    ELSE LET shorter == SeqsUpTo(S, n - 1)
         IN shorter \cup {Append(b, r) : b \in {x \in shorter : Len(x) = n - 1}, r \in S}

RECURSIVE Concat(_)
\* the frames of the partitions with only the last one kept
Concat_last(dfs) == IF dfs = <<>> THEN <<>> ELSE dfs[Len(dfs)]

\* pd.concat(dfs, ignore_index=True)
Concat(dfs) == IF dfs = <<>> THEN <<>> ELSE Head(dfs) \o Concat(Tail(dfs))

\* PipelineMetrics()
InitialMetrics ==
    [end_time |-> NULL,
     records_extracted |-> 0,
     records_validated |-> 0,
     records_loaded |-> 0,
     validity_rate |-> Exact(0, 1),
     quality_issues |-> <<>>,
     errors |-> <<>>]

\* ValidationResult before _validate has run
NoResult ==
    [total_records |-> 0, valid_records |-> 0, invalid_records |-> 0,
     error_summary |-> EmptyDict]

\* ETLPipeline(config), before run(), over an empty target
EtlIdle ==
    /\ pc = "Idle"
    /\ conn = "none"
    /\ metrics = InitialMetrics
    /\ raw_df = <<>>
    /\ valid_df = <<>>
    /\ tables = NoTables
    /\ load_i = 0
    /\ load_step = "parquet"
    /\ total_loaded = 0
    /\ parquet_files = {}
    /\ db_tables = {}
    /\ failed_in = NULL
    /\ validation_result = NoResult
    /\ clock = 0
    /\ stored = EmptyStore
    /\ history = <<>>

EtlInit ==
    /\ \E batch \in SeqsUpTo(SourceRecords, MaxBatch) :
         source \in {<<>>, <<batch>>}
                    \cup (IF Len(batch) > 0
                          THEN {<<SubSeq(batch, 1, 1), SubSeq(batch, 2, Len(batch))>>}
                          ELSE {})
    /\ config \in [min_validity_rate : MinValidityRates, enable_quality_checks : BOOLEAN]
    /\ EtlIdle

\* the threshold test with the comparison turned around
below_threshold_inverted(rate, min_validity_rate) ==
    \/ rate.num > min_validity_rate * rate.den
    \/ (rate.num = min_validity_rate * rate.den /\ rate.err.num > 0)

\* the threshold test with <= in place of <
below_threshold_or_equal(rate, min_validity_rate) ==
    \/ rate.num < min_validity_rate * rate.den
    \/ (rate.num = min_validity_rate * rate.den /\ rate.err.num <= 0)

\* etl_pipeline.py:148, the threshold test of _validate
below_threshold(rate, min_validity_rate) == FloatLess(rate, min_validity_rate)

\* an except block that records the error and lets run() return normally
Raise_swallowed(stage, msg, m, c) ==
    /\ metrics' = [m EXCEPT !.end_time = "set", !.errors = Append(@, msg)]
    /\ conn' = IF c = "none" THEN "none" ELSE "closed"
    /\ pc' = "Done"
    /\ failed_in' = stage

\* an except block that reports on a new PipelineMetrics
Raise_metrics_reset(stage, msg, m, c) ==
    /\ metrics' = [InitialMetrics EXCEPT !.end_time = "set", !.errors = Append(m.errors, msg)]
    /\ conn' = IF c = "none" THEN "none" ELSE "closed"
    /\ pc' = "Failed"
    /\ failed_in' = stage

\* an except block without the finally block: the connection stays as it is
Raise_connection_left_open(stage, msg, m, c) ==
    /\ metrics' = [m EXCEPT !.end_time = "set", !.errors = Append(@, msg)]
    /\ conn' = c
    /\ pc' = "Failed"
    /\ failed_in' = stage

\* run(): the except and finally blocks, entered from `stage` with error `msg`;
\* m is the metrics and c the connection at the point of the raise
Raise(stage, msg, m, c) ==
    /\ metrics' = [m EXCEPT !.end_time = "set", !.errors = Append(@, msg)]
    /\ conn' = IF c = "none" THEN "none" ELSE "closed"
    /\ pc' = "Failed"
    /\ failed_in' = stage

\* _setup_database
SetupDatabase ==
    /\ pc = "Idle"
    /\ \E outcome \in {"ok", "connect_error", "schema_error"} :
         CASE outcome = "ok" ->
                /\ conn' = "open"
                /\ pc' = "Extracting"
                /\ UNCHANGED <<metrics, failed_in>>
           [] outcome = "connect_error" -> Raise("Idle", "database error", metrics, conn)
           [] outcome = "schema_error" -> Raise("Idle", "database error", metrics, "open")
    /\ UNCHANGED <<source, config, raw_df, valid_df, tables, load_i, load_step,
                   total_loaded, parquet_files, db_tables>>
    /\ UNCHANGED <<validation_result, clock, stored, history>>
    /\ UNCHANGED gen_vars
    /\ UNCHANGED checker_vars

\* _extract
Extract ==
    /\ pc = "Extracting"
    /\ IF source = <<>>
       THEN /\ Raise("Extracting", "No event files found", metrics, conn)
            /\ UNCHANGED raw_df
       ELSE \E readable \in BOOLEAN :
              IF readable
              THEN /\ raw_df' = Concat(source)
                   /\ metrics' = [metrics EXCEPT !.records_extracted = Len(Concat(source))]
                   /\ pc' = "Validating"
                   /\ UNCHANGED <<conn, failed_in>>
              ELSE /\ Raise("Extracting", "read error", metrics, conn)
                   /\ UNCHANGED raw_df
    /\ UNCHANGED <<source, config, valid_df, tables, load_i, load_step,
                   total_loaded, parquet_files, db_tables>>
    /\ UNCHANGED <<validation_result, clock, stored, history>>
    /\ UNCHANGED gen_vars
    /\ UNCHANGED checker_vars

\* _validate
Validate ==
    /\ pc = "Validating"
    /\ LET v == validate_events(raw_df)
           rate == validity_rate(v.result)
           m == [metrics EXCEPT !.records_validated = v.result.valid_records,
                                !.validity_rate = rate]
       IN IF below_threshold(rate, config.min_validity_rate)
          THEN /\ Raise("Validating", "Validity rate is below threshold",
                        [m EXCEPT !.errors = Append(@, "Validity rate is below threshold")],
                        conn)
               /\ UNCHANGED valid_df
          ELSE /\ valid_df' = v.valid_df
               /\ metrics' = m
               /\ pc' = "QualityChecking"
               /\ UNCHANGED <<conn, failed_in>>
    /\ validation_result' = validate_events(raw_df).result
    /\ UNCHANGED <<source, config, raw_df, tables, load_i, load_step,
                   total_loaded, parquet_files, db_tables>>
    /\ UNCHANGED <<clock, stored, history>>
    /\ UNCHANGED gen_vars
    /\ UNCHANGED checker_vars

\* _run_quality_checks; a valid_df without rows has no columns either
RunQualityChecks ==
    /\ pc = "QualityChecking"
    /\ IF ~config.enable_quality_checks
       THEN /\ pc' = "Transforming"
            /\ UNCHANGED <<metrics, conn, failed_in, clock>>
       ELSE IF valid_df = <<>>
       THEN /\ Raise("QualityChecking", "KeyError", metrics, conn)
            /\ UNCHANGED clock
       ELSE \E now \in {t \in Clock : t >= clock} :
              /\ metrics' = [metrics EXCEPT !.quality_issues = run_all_checks(valid_df, now)]
              /\ clock' = now
              /\ pc' = "Transforming"
              /\ UNCHANGED <<conn, failed_in>>
    /\ UNCHANGED <<source, config, raw_df, valid_df, tables, load_i, load_step,
                   total_loaded, parquet_files, db_tables>>
    /\ UNCHANGED <<validation_result, stored, history>>
    /\ UNCHANGED gen_vars
    /\ UNCHANGED checker_vars

\* _transform; a valid_df without rows has no "timestamp" column
Transform ==
    /\ pc = "Transforming"
    /\ IF valid_df = <<>>
       THEN /\ Raise("Transforming", "KeyError", metrics, conn)
            /\ UNCHANGED tables
       ELSE /\ tables' = transform(valid_df)
            /\ pc' = "Loading"
            /\ UNCHANGED <<metrics, conn, failed_in>>
    /\ UNCHANGED <<source, config, raw_df, valid_df, load_i, load_step,
                   total_loaded, parquet_files, db_tables>>
    /\ UNCHANGED <<validation_result, clock, stored, history>>
    /\ UNCHANGED gen_vars
    /\ UNCHANGED checker_vars

\* _load, one iteration of the loop: df.to_parquet(parquet_path)
LoadParquet ==
    /\ pc = "Loading"
    /\ load_i < Len(tables.names)
    /\ load_step = "parquet"
    /\ \E written \in BOOLEAN :
         IF written
         THEN /\ parquet_files' = parquet_files \cup {tables.names[load_i + 1]}
              /\ stored' = [stored EXCEPT !.parquet =
                                Put(@, tables.names[load_i + 1],
                                    table_rows(tables, tables.names[load_i + 1]))]
              /\ load_step' = "duckdb"
              /\ UNCHANGED <<metrics, conn, pc, failed_in>>
         ELSE /\ Raise("Loading", "write error", metrics, conn)
              /\ UNCHANGED <<parquet_files, load_step, stored>>
    /\ UNCHANGED <<source, config, raw_df, valid_df, tables, load_i,
                   total_loaded, db_tables>>
    /\ UNCHANGED <<validation_result, clock, history>>
    /\ UNCHANGED gen_vars
    /\ UNCHANGED checker_vars

\* _load, one iteration of the loop: DROP TABLE IF EXISTS, CREATE TABLE AS
LoadDuckDB ==
    /\ pc = "Loading"
    /\ load_i < Len(tables.names)
    /\ load_step = "duckdb"
    /\ LET table_name == tables.names[load_i + 1]
       IN \E outcome \in {"ok", "drop_error", "create_error"} :
            CASE outcome = "ok" ->
                   /\ db_tables' = db_tables \cup {table_name}
                   /\ stored' = [stored EXCEPT !.duckdb =
                                     Put(@, table_name, table_rows(tables, table_name))]
                   /\ total_loaded' = total_loaded + table_len(tables, table_name)
                   /\ load_i' = load_i + 1
                   /\ load_step' = "parquet"
                   /\ UNCHANGED <<metrics, conn, pc, failed_in>>
              [] outcome = "drop_error" ->
                   /\ Raise("Loading", "database error", metrics, conn)
                   /\ UNCHANGED <<db_tables, total_loaded, load_i, load_step, stored>>
              [] outcome = "create_error" ->
                   /\ Raise("Loading", "database error", metrics, conn)
                   /\ db_tables' = db_tables \ {table_name}
                   /\ stored' = [stored EXCEPT !.duckdb = Remove(@, table_name)]
                   /\ UNCHANGED <<total_loaded, load_i, load_step>>
    /\ UNCHANGED <<source, config, raw_df, valid_df, tables, parquet_files>>
    /\ UNCHANGED <<validation_result, clock, history>>
    /\ UNCHANGED gen_vars
    /\ UNCHANGED checker_vars

\* _load after the loop, then the end of run(): end_time, finally
FinishLoad ==
    /\ pc = "Loading"
    /\ load_i = Len(tables.names)
    /\ metrics' = [metrics EXCEPT !.records_loaded = total_loaded, !.end_time = "set"]
    /\ conn' = "closed"
    /\ pc' = "Done"
    /\ UNCHANGED <<source, config, raw_df, valid_df, tables, load_i, load_step,
                   total_loaded, parquet_files, db_tables, failed_in>>
    /\ UNCHANGED <<validation_result, clock, stored, history>>
    /\ UNCHANGED gen_vars
    /\ UNCHANGED checker_vars

\* what a finished run leaves for its caller: outcome, metrics, outputs
RunReport ==
    [pc |-> pc, failed_in |-> failed_in, metrics |-> metrics, stored |-> stored]

\* the locals of run() and of its stages at the start of a call
RunLocalsReset ==
    /\ pc' = "Idle"
    /\ raw_df' = <<>>
    /\ valid_df' = <<>>
    /\ tables' = NoTables
    /\ load_i' = 0
    /\ load_step' = "parquet"
    /\ total_loaded' = 0
    /\ parquet_files' = {}
    /\ db_tables' = {}
    /\ failed_in' = NULL
    /\ validation_result' = NoResult

\* run() called a second time on the same ETLPipeline object: self.metrics
\* and self.conn are the ones the first call left
RunAgain ==
    /\ pc \in {"Done", "Failed"}
    /\ history = <<>>
    /\ history' = Append(history, RunReport)
    /\ RunLocalsReset
    /\ UNCHANGED <<source, config, conn, metrics, clock, stored>>
    /\ UNCHANGED gen_vars
    /\ UNCHANGED checker_vars

\* a second run as main() does it: ETLPipeline(config) anew, then run()
RunNewPipeline ==
    /\ pc \in {"Done", "Failed"}
    /\ history = <<>>
    /\ history' = Append(history, RunReport)
    /\ RunLocalsReset
    /\ metrics' = InitialMetrics
    /\ conn' = "none"
    /\ UNCHANGED <<source, config, clock, stored>>
    /\ UNCHANGED gen_vars
    /\ UNCHANGED checker_vars

\* checker.run_all_checks() on an existing DataQualityChecker: every check
\* appends to self.issues, and self.issues is what the call returns
RunAllChecks ==
    /\ checker.df # <<>>
    /\ Len(checker.returned) < MaxCalls
    /\ \E now \in {t \in Clock : t >= clock} :
         LET issues == checker.issues \o run_all_checks(checker.df, now)
         IN /\ checker' = [checker EXCEPT !.issues = issues,
                                          !.returned = Append(@, issues)]
            /\ clock' = now
    /\ UNCHANGED <<source, config, pc, conn, metrics, raw_df, valid_df, tables,
                   load_i, load_step, total_loaded, parquet_files, db_tables,
                   failed_in, validation_result, stored, history>>
    /\ UNCHANGED gen_vars

\* ========================================================== specifications
\* one run of ETLPipeline.run over a source directory
Init == EtlInit /\ GenIdle /\ checker = NoChecker
Next ==
    \/ SetupDatabase
    \/ Extract
    \/ Validate
    \/ RunQualityChecks
    \/ Transform
    \/ LoadParquet
    \/ LoadDuckDB
    \/ FinishLoad
Spec == Init /\ [][Next]_vars

\* one call of EventGenerator.generate
InitGen ==
    /\ GenInit
    /\ EtlIdle
    /\ checker = NoChecker
    /\ source = <<>>
    /\ config = [min_validity_rate |-> DefaultMinValidity, enable_quality_checks |-> TRUE]
NextGen ==
    \/ GenerateEvent
    \/ FinishGenerate
    \/ FailGenerate
SpecGen == InitGen /\ [][NextGen]_vars

\* _transform applied to validated batches
EventIdAt(i) == IF i = 1 THEN "EVT_1" ELSE IF i = 2 THEN "EVT_2" ELSE "EVT_3"

AggShapes ==
    {<<"page_view", NULL, NULL, 0>>,
     <<"product_view", "PROD_1", "Books", 0>>,
     <<"add_to_cart", "PROD_2", "Books", 0>>,
     <<"purchase", "PROD_1", "Books", 5>>,
     <<"remove_from_cart", "PROD_1", NULL, 0>>,
     <<"product_view", "PROD_2", "Books", 3>>}

AggRecords ==
    {Rec("EVT_1", sh[1], us[1], us[2], t, sh[2], sh[3], sh[4]) :
        sh \in AggShapes,
        us \in {<<"USER_1", "SES_1">>, <<"USER_1", "SES_2">>, <<"USER_2", "SES_2">>},
        t \in {MinutesPerDay - 1, MinutesPerDay}}

InitAgg ==
    /\ GenIdle
    /\ \E b \in SeqsUpTo(AggRecords, MaxAggBatch) :
         LET batch == [i \in DOMAIN b |-> [b[i] EXCEPT !.event_id = EventIdAt(i)]]
             v == validate_events(batch)
         IN /\ source = <<batch>>
            /\ raw_df = batch
            /\ valid_df = v.valid_df
            /\ metrics = [InitialMetrics EXCEPT
                             !.records_extracted = Len(batch),
                             !.records_validated = v.result.valid_records,
                             !.validity_rate = validity_rate(v.result)]
    /\ config = [min_validity_rate |-> 0, enable_quality_checks |-> FALSE]
    /\ pc = "Transforming"
    /\ conn = "open"
    /\ tables = NoTables
    /\ load_i = 0
    /\ load_step = "parquet"
    /\ total_loaded = 0
    /\ parquet_files = {}
    /\ db_tables = {}
    /\ failed_in = NULL
    /\ validation_result = validate_events(raw_df).result
    /\ clock = 0
    /\ stored = EmptyStore
    /\ history = <<>>
    /\ checker = NoChecker
NextAgg == Transform
SpecAgg == InitAgg /\ [][NextAgg]_vars

\* two runs, one after the other, over the same source_dir, configuration,
\* target_dir and database
InitRerun ==
    /\ \E batch \in SeqsUpTo(SourceRecords, MaxRerunBatch) : source \in {<<>>, <<batch>>}
    /\ config \in [min_validity_rate : MinValidityRates, enable_quality_checks : BOOLEAN]
    /\ EtlIdle
    /\ GenIdle
    /\ checker = NoChecker
NextRerun ==
    \/ SetupDatabase
    \/ Extract
    \/ Validate
    \/ RunQualityChecks
    \/ Transform
    \/ LoadParquet
    \/ LoadDuckDB
    \/ FinishLoad
    \/ RunAgain
    \/ RunNewPipeline
SpecRerun == InitRerun /\ [][NextRerun]_vars

\* _validate applied to extracted batches of up to MaxRateTotal records of
\* which any number is valid
RateThresholds == {DefaultMinValidity, 58}

InitRate ==
    /\ GenIdle
    /\ \E total \in 0..MaxRateTotal : \E valid \in 0..total :
         raw_df = [i \in 1..total |->
                      IF i <= valid
                      THEN Rec("EVT_1", "page_view", "USER_1", "SES_1", 0, NULL, NULL, 0)
                      ELSE Rec("EVT_1", "invalid_type", "USER_1", "SES_1", 0, NULL, NULL, 0)]
    /\ source = <<raw_df>>
    /\ metrics = [InitialMetrics EXCEPT !.records_extracted = Len(raw_df)]
    /\ config \in [min_validity_rate : RateThresholds, enable_quality_checks : {FALSE}]
    /\ pc = "Validating"
    /\ conn = "open"
    /\ valid_df = <<>>
    /\ tables = NoTables
    /\ load_i = 0
    /\ load_step = "parquet"
    /\ total_loaded = 0
    /\ parquet_files = {}
    /\ db_tables = {}
    /\ failed_in = NULL
    /\ validation_result = NoResult
    /\ clock = 0
    /\ stored = EmptyStore
    /\ history = <<>>
    /\ checker = NoChecker
NextRate == Validate
SpecRate == InitRate /\ [][NextRate]_vars

\* _validate applied to one record whose properties field holds a native
\* value, the json.dumps of one, or any text of up to MaxTextLen tokens
PropertyInputs(kind) ==
    CASE kind = "native" -> PyValues(MaxDepth)
      [] kind = "encoded" -> {PyStr(json_dumps(v)) : v \in PyValues(MaxDepth)}
      [] kind = "text" -> {PyStr(text) : text \in SeqsUpTo(Tokens, MaxTextLen)}

InitProps ==
    /\ GenIdle
    /\ \E kind \in {"native", "encoded", "text"} : \E p \in PropertyInputs(kind) :
         raw_df = <<[Rec("EVT_1", "page_view", "USER_1", "SES_1", 0, NULL, NULL, 0)
                       EXCEPT !.properties = p]>>
    /\ source = <<raw_df>>
    /\ metrics = [InitialMetrics EXCEPT !.records_extracted = Len(raw_df)]
    /\ config \in [min_validity_rate : {0, DefaultMinValidity},
                   enable_quality_checks : {FALSE}]
    /\ pc = "Validating"
    /\ conn = "open"
    /\ valid_df = <<>>
    /\ tables = NoTables
    /\ load_i = 0
    /\ load_step = "parquet"
    /\ total_loaded = 0
    /\ parquet_files = {}
    /\ db_tables = {}
    /\ failed_in = NULL
    /\ validation_result = NoResult
    /\ clock = 0
    /\ stored = EmptyStore
    /\ history = <<>>
    /\ checker = NoChecker
NextProps == Validate
SpecProps == InitProps /\ [][NextProps]_vars

\* run_all_checks called up to MaxCalls times on one DataQualityChecker
\* over a frame of validated records
OutlierFrame ==
    [i \in 1..11 |->
        IF i <= 10
        THEN Rec("EVT_1", "purchase", "USER_1", "SES_1", MinutesPerDay, NULL, NULL, 1)
        ELSE Rec("EVT_2", "purchase", "USER_1", "SES_1", 2 * MinutesPerDay + 1,
                 NULL, NULL, 100)]

CheckerFrames ==
    {b \in SeqsUpTo({r \in SourceRecords : EventSchema(r)}, MaxCheckerBatch) : b # <<>>}
    \cup {OutlierFrame}

InitChecker ==
    /\ GenIdle
    /\ EtlIdle
    /\ source = <<>>
    /\ config = [min_validity_rate |-> DefaultMinValidity, enable_quality_checks |-> TRUE]
    /\ \E events_df \in CheckerFrames : checker = DataQualityChecker(events_df)
NextChecker == RunAllChecks
SpecChecker == InitChecker /\ [][NextChecker]_vars

\* ================================================================== claims
RECURSIVE SumTotalRevenue(_)
\* the sum of total_revenue over a set of rows
SumTotalRevenue(rows) ==
    IF rows = {} THEN 0
    ELSE LET r == CHOOSE x \in rows : TRUE
         IN r.total_revenue + SumTotalRevenue(rows \ {r})

MinRate == Rat(config.min_validity_rate, 1)

\* _validate has run to its end (returned or raised)
ValidateDone ==
    \/ pc \in {"QualityChecking", "Transforming", "Loading", "Done"}
    \/ pc = "Failed" /\ failed_in \notin {"Idle", "Extracting"}

\* C1: whenever the validity rate computed for the extracted batch is below
\* min_validity_rate, the run never enters quality checking, _transform or
\* _load (it can only end as Failed), and it writes no parquet file and
\* no analytics table.
C1_ThresholdGate ==
    FloatLess(validity_rate(validate_events(Concat(source)).result), config.min_validity_rate)
        => /\ pc \in {"Idle", "Extracting", "Validating", "Failed"}
           /\ tables = NoTables
           /\ parquet_files = {}
           /\ db_tables = {}

C1_Witness ==
    /\ pc = "Failed"
    /\ failed_in = "Validating"
    /\ metrics.records_validated > 0
    /\ FloatLess(metrics.validity_rate, config.min_validity_rate)
    /\ parquet_files = {}

\* C2: once _validate has run, the run has failed at the gate if and only if
\* the validity rate is strictly below min_validity_rate; a rate equal to the
\* minimum passes on to quality checking.
C2_GateIffStrictlyBelow ==
    ValidateDone =>
        (failed_in = "Validating" <=> FloatLess(metrics.validity_rate, config.min_validity_rate))

C2_Witness ==
    /\ pc = "QualityChecking"
    /\ metrics.records_validated > 0
    /\ metrics.records_validated < metrics.records_extracted
    /\ RatEq(metrics.validity_rate, MinRate)
    /\ metrics.validity_rate.err.num = 0

\* C3: a run that failed inside _load leaves none of its tables behind under
\* its final name, neither as a parquet file nor as an analytics table.
C3_LoadAtomic ==
    (pc = "Failed" /\ failed_in = "Loading") => (parquet_files = {} /\ db_tables = {})

\* C9: for every date of the batch, the total_revenue of the sessions that
\* start on that date adds up to the total_revenue of the date's daily row.
C9_PerDateReconciliation ==
    pc = "Loading" =>
        \A d \in tables.fct_daily_metrics :
            SumTotalRevenue({r \in tables.fct_sessions :
                                event_date(r.session_start) = d.event_date})
                = d.total_revenue

\* C10 as stated: the four ratios are finite and are 0 whenever
\* unique_sessions, unique_users or view_count is 0.
C10_ZeroWhenDenominatorZero ==
    pc = "Loading" =>
        /\ \A d \in tables.fct_daily_metrics :
             /\ IsFinite(d.conversion_rate) /\ IsFinite(d.avg_revenue_per_user)
             /\ d.unique_sessions = 0 => d.conversion_rate.num = 0
             /\ d.unique_users = 0 => d.avg_revenue_per_user.num = 0
        /\ \A p \in tables.fct_product_performance :
             /\ IsFinite(p.cart_rate) /\ IsFinite(p.purchase_rate)
             /\ p.view_count = 0 => (p.cart_rate.num = 0 /\ p.purchase_rate.num = 0)

\* C10 amended: in every row produced by _transform the four ratios are
\* finite; a daily row has unique_sessions >= 1 and unique_users >= 1; when
\* view_count is 0, cart_rate is cart_adds and purchase_rate is purchases
\* (the divisor is view_count with 0 replaced by 1).
C10_RatiosDefined ==
    pc = "Loading" =>
        /\ \A d \in tables.fct_daily_metrics :
             /\ d.unique_sessions >= 1 /\ d.unique_users >= 1
             /\ IsFinite(d.conversion_rate) /\ IsFinite(d.avg_revenue_per_user)
             /\ RatEq(d.conversion_rate, Rat(d.purchases, d.unique_sessions))
             /\ RatEq(d.avg_revenue_per_user, Rat(d.total_revenue, d.unique_users))
        /\ \A p \in tables.fct_product_performance :
             /\ IsFinite(p.cart_rate) /\ IsFinite(p.purchase_rate)
             /\ p.view_count > 0 =>
                    /\ RatEq(p.cart_rate, Rat(p.cart_adds, p.view_count))
                    /\ RatEq(p.purchase_rate, Rat(p.purchases, p.view_count))
             /\ p.view_count = 0 =>
                    /\ RatEq(p.cart_rate, Rat(p.cart_adds, 1))
                    /\ RatEq(p.purchase_rate, Rat(p.purchases, 1))

C10_Witness ==
    /\ pc = "Loading"
    /\ \E p \in tables.fct_product_performance : p.view_count = 0 /\ p.cart_adds > 0
    /\ \E p \in tables.fct_product_performance : p.view_count > 0


\* events i < j are consecutive events of one user in processing order
ConsecutiveOfUser(i, j) ==
    /\ i < j
    /\ events[i].user_id = events[j].user_id
    /\ \A k \in DOMAIN events : (i < k /\ k < j) => events[k].user_id # events[i].user_id

\* C4: at every call of _get_or_create_session for a user who has a session
\* and whose event is not earlier than the stored last activity, a new
\* session is created if and only if the gap strictly exceeds the timeout.
C4_SessionCausality ==
    \A i \in DOMAIN assign_log :
        LET e == assign_log[i]
        IN (e.had_session /\ e.timestamp >= e.last_activity)
              => (e.created <=> (e.timestamp - e.last_activity) > session_timeout_minutes)

\* C5: at every call of _get_or_create_session for a user who has a session,
\* the event's timestamp is at or after the user's stored last_activity.
C5_OrderingEnforced ==
    \A i \in DOMAIN assign_log :
        assign_log[i].had_session => assign_log[i].timestamp >= assign_log[i].last_activity

\* C6: in the DataFrame returned by generate(), no event of a user lies
\* strictly between (in time) two events of another session of that user,
\* and two events of a session that are neighbours in time within the
\* session are at most the idle timeout apart.
C6_SessionContiguity ==
    gen_pc = "done" =>
        \A a, c \in DOMAIN gen_df :
            (/\ gen_df[a].user_id = gen_df[c].user_id
             /\ gen_df[a].session_id = gen_df[c].session_id
             /\ gen_df[a].timestamp < gen_df[c].timestamp)
            => /\ \A b \in DOMAIN gen_df :
                    (/\ gen_df[b].user_id = gen_df[a].user_id
                     /\ gen_df[a].timestamp < gen_df[b].timestamp
                     /\ gen_df[b].timestamp < gen_df[c].timestamp)
                    => gen_df[b].session_id = gen_df[a].session_id
               /\ (\A b \in DOMAIN gen_df :
                      (/\ gen_df[b].user_id = gen_df[a].user_id
                       /\ gen_df[b].session_id = gen_df[a].session_id)
                      => (gen_df[b].timestamp <= gen_df[a].timestamp
                          \/ gen_df[b].timestamp >= gen_df[c].timestamp))
                  => gen_df[c].timestamp - gen_df[a].timestamp <= session_timeout_minutes

\* C7: for every idle timeout, two events of one user with the same
\* timestamp that are processed one after the other get the same session_id.
C7_ZeroGapTieBreak ==
    \A i, j \in DOMAIN events :
        (ConsecutiveOfUser(i, j) /\ events[i].timestamp = events[j].timestamp)
            => events[i].session_id = events[j].session_id

\* C8: when a call of _get_or_create_session creates a session for a user,
\* no event of that user from then on carries a session_id of an earlier
\* event of that user; the events of one session_id form one block of the
\* user's events in processing order.
C8_NeverMerge ==
    /\ \A j \in DOMAIN assign_log :
         assign_log[j].created =>
            \A i, k \in DOMAIN events :
               (/\ i < j /\ j <= k
                /\ events[i].user_id = events[j].user_id
                /\ events[k].user_id = events[j].user_id)
               => events[k].session_id # events[i].session_id
    /\ \A i, j, k \in DOMAIN events :
         (/\ i < j /\ j < k
          /\ events[i].user_id = events[j].user_id
          /\ events[k].user_id = events[j].user_id
          /\ events[i].session_id = events[k].session_id)
         => events[j].session_id = events[i].session_id

C8_Witness ==
    \E i, j, k \in DOMAIN events :
        /\ i < j /\ j < k
        /\ events[i].user_id = events[j].user_id
        /\ events[k].user_id = events[j].user_id
        /\ assign_log[j].created
        /\ assign_log[k].created
        /\ session_timeout_minutes = DefaultTimeout

\* the set of the table names returned by _transform
TableNames == {tables.names[k] : k \in DOMAIN tables.names}

\* C11: the dictionary returned by _transform has the key
\* fct_product_performance if and only if at least one event of the batch has
\* a non-null product_id; fct_events, fct_sessions and fct_daily_metrics are
\* always among its keys, and no key occurs twice.
C11_ProductTableIffProductId ==
    pc = "Loading" =>
        /\ "fct_product_performance" \in TableNames
               <=> (\E i \in DOMAIN valid_df : valid_df[i].product_id # NULL)
        /\ {"fct_events", "fct_sessions", "fct_daily_metrics"} \subseteq TableNames
        /\ Cardinality(TableNames) = Len(tables.names)

\* a batch with events and no product_id: three tables, no product table
C11_Witness ==
    /\ pc = "Loading"
    /\ Len(valid_df) = MaxAggBatch
    /\ \A i \in DOMAIN valid_df : valid_df[i].product_id = NULL
    /\ Len(tables.names) = 3

\* a batch whose only product event has no category: the product table is
\* there and has no rows
C11_WitnessEmptyTable ==
    /\ pc = "Loading"
    /\ "fct_product_performance" \in TableNames
    /\ tables.fct_product_performance = {}

\* C12: for every validated batch, every session_id of fct_events is the
\* session_id of exactly one row of fct_sessions.
C12_OneRowPerSessionId ==
    pc = "Loading" =>
        \A i \in DOMAIN tables.fct_events :
            Cardinality({r \in tables.fct_sessions :
                            r.session_id = tables.fct_events[i].session_id}) = 1

\* the stages of run() in the order of the claim, from Idle to Done
Stages ==
    <<"Idle", "Extracting", "Validating", "QualityChecking", "Transforming",
      "Loading", "Done">>

\* C13: every step of a run starts in a non-terminal stage (nothing executes
\* once the run is Done or Failed); a step that changes the stage either
\* ends the run as Failed or enters the next stage of the order Extract,
\* Validate, QualityCheck, Transform, Load, Done, and it enters the next
\* stage only while no error has been recorded.
C13_StageOrdering ==
    [][/\ pc \notin {"Done", "Failed"}
       /\ pc' # pc =>
             \/ pc' = "Failed"
             \/ \E k \in 1..(Len(Stages) - 1) :
                   /\ pc = Stages[k]
                   /\ pc' = Stages[k + 1]
                   /\ metrics'.errors = <<>>]_vars

\* Failed is entered from every non-terminal stage
C13_FailedFromIdle == pc = "Failed" /\ failed_in = "Idle"
C13_FailedFromExtracting == pc = "Failed" /\ failed_in = "Extracting"
C13_FailedFromValidating == pc = "Failed" /\ failed_in = "Validating"
C13_FailedFromQualityChecking == pc = "Failed" /\ failed_in = "QualityChecking"
C13_FailedFromTransforming == pc = "Failed" /\ failed_in = "Transforming"
C13_FailedFromLoading == pc = "Failed" /\ failed_in = "Loading"

\* the rows of all partitions of source_dir together
SourceRowCount == SumSeq([k \in DOMAIN source |-> Len(source[k])])

\* C14: with no events_*.parquet partition the run never gets past
\* Extracting other than to Failed, records_extracted stays 0 and no later
\* stage leaves a trace; when the run has entered Validating there was at
\* least one partition and records_extracted is the row count of all
\* partitions together.
C14_ExtractionGate ==
    /\ source = <<>> =>
          /\ pc \in {"Idle", "Extracting", "Failed"}
          /\ failed_in \in {NULL, "Idle", "Extracting"}
          /\ metrics.records_extracted = 0
          /\ metrics.records_validated = 0
          /\ metrics.quality_issues = <<>>
          /\ raw_df = <<>> /\ valid_df = <<>> /\ tables = NoTables
          /\ parquet_files = {} /\ db_tables = {}
    /\ pc \notin {"Idle", "Extracting", "Failed"} =>
          /\ source # <<>>
          /\ metrics.records_extracted = SourceRowCount
          /\ Len(raw_df) = SourceRowCount

\* a run over a directory without partitions, failed in _extract
C14_Witness ==
    /\ source = <<>>
    /\ pc = "Failed"
    /\ failed_in = "Extracting"
    /\ "No event files found" \in {metrics.errors[k] : k \in DOMAIN metrics.errors}

\* a run over two partitions with rows, arrived in Validating
C14_WitnessTwoPartitions ==
    /\ Len(source) = 2
    /\ Len(source[1]) > 0 /\ Len(source[2]) > 0
    /\ pc = "Validating"
    /\ metrics.records_extracted = SourceRowCount

\* C15: the run never fails in QualityChecking; once the run is past
\* QualityChecking the batch handed to _transform is the batch _validate
\* returned for the extracted rows; with quality checks disabled no issue
\* is recorded.
C15_QualityChecksAdvisory ==
    /\ failed_in # "QualityChecking"
    /\ (pc \in {"Transforming", "Loading", "Done"} \/ failed_in \in {"Transforming", "Loading"})
          => /\ valid_df = validate_events(raw_df).valid_df
             /\ ~config.enable_quality_checks => metrics.quality_issues = <<>>

\* the metrics of two runs agree in everything but the wall-clock times
SameMetrics(m1, m2) ==
    /\ m1.records_extracted = m2.records_extracted
    /\ m1.records_validated = m2.records_validated
    /\ m1.records_loaded = m2.records_loaded
    /\ m1.validity_rate = m2.validity_rate
    /\ m1.quality_issues = m2.quality_issues
    /\ m1.errors = m2.errors

\* the second run has ended as the first one did, and neither was stopped
\* by the database or the file system
SecondRunEndedAlike ==
    /\ history # <<>>
    /\ pc \in {"Done", "Failed"}
    /\ pc = history[1].pc
    /\ failed_in = history[1].failed_in
    /\ failed_in \notin {"Idle", "Loading"}
    /\ failed_in = "Extracting" => source = <<>>

\* C16: when the pipeline has run twice on the same input and configuration,
\* the second run leaves the same output tables with the same contents as
\* the first, and the same metrics apart from the wall-clock times.
C16_RerunIdempotent ==
    SecondRunEndedAlike =>
        /\ stored = history[1].stored
        /\ SameMetrics(metrics, history[1].metrics)

\* the error messages a failure in `stage` can carry
ErrorsOf(stage) ==
    CASE stage = "Idle" -> {"database error"}
      [] stage = "Extracting" -> IF source = <<>> THEN {"No event files found"}
                                 ELSE {"read error"}
      [] stage = "Validating" -> {"Validity rate is below threshold"}
      [] stage \in {"QualityChecking", "Transforming"} -> {"KeyError"}
      [] stage = "Loading" -> {"write error", "database error"}

OtherFieldsValid(record) ==
    /\ record.event_id \in WellFormedEventIds
    /\ record.event_type \in EventTypeEnum
    /\ record.user_id \in WellFormedUserIds
    /\ record.product_id = NULL \/ record.product_id \in WellFormedProductIds
    /\ record.revenue >= 0
    /\ record.revenue <= MaxRevenue
    /\ record.properties.tag = "dict"

RECURSIVE SumDict(_)
\* sum(d.values()) of a dict of counts
SumDict(d) ==
    IF DOMAIN d = {} THEN 0
    ELSE LET k == CHOOSE x \in DOMAIN d : TRUE
         IN d[k] + SumDict(Remove(d, k))

\* the rows of the extracted batch that satisfy the schema
ValidRows == {i \in DOMAIN raw_df : EventSchema(raw_df[i])}

\* C19: validate_events has classified every record of the batch once:
\* total_records is the size of the batch, valid_records is the number of
\* records that satisfy the schema, valid_records + invalid_records =
\* total_records, the counts of error_summary add up to invalid_records,
\* a failure of the run in Validating is the threshold failure and nothing
\* else, and the valid table handed on holds the valid records in input order.
C19_PerRecordIsolation ==
    ValidateDone =>
        /\ validation_result.total_records = Len(raw_df)
        /\ validation_result.valid_records = Cardinality(ValidRows)
        /\ validation_result.valid_records + validation_result.invalid_records
               = validation_result.total_records
        /\ SumDict(validation_result.error_summary) = validation_result.invalid_records
        /\ failed_in = "Validating" =>
               metrics.errors[Len(metrics.errors)] = "Validity rate is below threshold"
        /\ failed_in # "Validating" =>
               /\ Len(valid_df) = Cardinality(ValidRows)
               /\ \A k \in DOMAIN valid_df :
                      \E i \in ValidRows :
                         /\ Cardinality({j \in ValidRows : j < i}) = k - 1
                         /\ valid_df[k] = raw_df[i]

\* a batch with an invalid record between two different valid ones
C19_Witness ==
    /\ pc = "QualityChecking"
    /\ Len(raw_df) = MaxBatch
    /\ ValidRows = {1, MaxBatch}
    /\ raw_df[1] # raw_df[MaxBatch]
    /\ valid_df = <<raw_df[1], raw_df[MaxBatch]>>
    /\ validation_result.invalid_records = MaxBatch - 2

\* C20: the validity rate recorded by _validate is 100 * valid_records /
\* total_records when the batch has records (as a float: the double nearest
\* to that value, at most half a unit in the last place away from it) and
\* 0 when it has none; a batch without records gives total 0, an empty
\* valid table and no error in validate_events.
C20_ValidityRateFormula ==
    ValidateDone =>
        /\ validation_result.total_records > 0 =>
               /\ RatEq(metrics.validity_rate,
                        Rat(Percent * validation_result.valid_records,
                            validation_result.total_records))
               /\ 2 * metrics.validity_rate.err.num <= metrics.validity_rate.err.den
               /\ 0 - 2 * metrics.validity_rate.err.num <= metrics.validity_rate.err.den
        /\ validation_result.total_records = 0 =>
               /\ metrics.validity_rate = Exact(0, 1)
               /\ validation_result.valid_records = 0
               /\ valid_df = <<>>

\* the mappings json.dumps can write, each with its encoding
EncodedMappings == {<<json_dumps(d), d>> : d \in {v \in PyValues(MaxDepth) : v.tag = "dict"}}

\* C21: in every accepted event properties is a mapping: a native mapping is
\* accepted and kept as it is, a string that encodes a mapping is accepted
\* and decoded to the mapping that was encoded, and a string that does not
\* decode, or decodes to something that is not a mapping, makes the record
\* invalid.
C21_PropertiesIsMapping ==
    (ValidateDone /\ Len(raw_df) = 1) =>
        LET given == raw_df[1].properties
            accepted == validation_result.valid_records = 1
        IN /\ \A i \in DOMAIN valid_df : valid_df[i].properties.tag = "dict"
           /\ given.tag = "dict" =>
                  accepted /\ \A i \in DOMAIN valid_df : valid_df[i].properties = given
           /\ \A e \in EncodedMappings :
                  (given.tag = "str" /\ given.val = e[1]) =>
                      accepted /\ \A i \in DOMAIN valid_df : valid_df[i].properties = e[2]
           /\ (given.tag = "str" /\ ~json_loads(given.val).ok) => ~accepted
           /\ (given.tag = "str" /\ json_loads(given.val).ok
                   /\ json_loads(given.val).val.tag # "dict") => ~accepted

\* C21 without the strings that decode to a string
C21_ExceptEncodedStrings ==
    (ValidateDone /\ Len(raw_df) = 1) =>
        LET given == raw_df[1].properties
            accepted == validation_result.valid_records = 1
            encoded_string == /\ given.tag = "str"
                              /\ json_loads(given.val).ok
                              /\ json_loads(given.val).val.tag = "str"
        IN ~encoded_string => C21_PropertiesIsMapping

\* a record whose properties is the text "k" (one string literal) was
\* accepted, and its properties is the string k
C21_EncodedStringAccepted ==
    /\ pc = "QualityChecking"
    /\ Len(raw_df) = 1
    /\ raw_df[1].properties = PyStr(<<Literal("k")>>)
    /\ Len(valid_df) = 1
    /\ valid_df[1].properties = PyStr(<<"k">>)

\* a nested mapping given as text was accepted and decoded
C21_NestedMappingDecoded ==
    /\ pc = "QualityChecking"
    /\ Len(raw_df) = 1
    /\ raw_df[1].properties.tag = "str"
    /\ Len(valid_df) = 1
    /\ valid_df[1].properties = PyDict([w \in Words |-> PyDict([x \in {"k"} |-> PyInt(1)])])

\* _run_quality_checks has run run_all_checks and returned
QualityChecked ==
    /\ config.enable_quality_checks
    /\ \/ pc \in {"Transforming", "Loading", "Done"}
       \/ pc = "Failed" /\ failed_in \in {"Transforming", "Loading"}

IsDuplicatesIssue(issue) == issue.check = "duplicates"

\* the rows of valid_df whose event_id occurs in another row as well
DuplicatedRows ==
    {i \in DOMAIN valid_df :
        \E j \in DOMAIN valid_df : j # i /\ valid_df[j].event_id = valid_df[i].event_id}

\* C22: duplicate event_ids do not fail validation (every record is judged
\* on its own fields, whatever event_ids the other records carry), and the
\* quality issues hold exactly one "duplicates" issue of high severity whose
\* count is the number of rows whose event_id occurs more than once when
\* there is such a row, and no "duplicates" issue when all event_ids differ.
C22_DuplicatesAreQualityIssue ==
    /\ ValidateDone =>
           validation_result.valid_records
               = Cardinality({i \in DOMAIN raw_df : EventSchema(raw_df[i])})
    /\ QualityChecked =>
           SelectSeq(metrics.quality_issues, IsDuplicatesIssue)
               = IF DuplicatedRows = {} THEN <<>>
                 ELSE <<[check |-> "duplicates", severity |-> "high",
                         count |-> Cardinality(DuplicatedRows), column |-> NULL]>>

\* three validated rows, two of which share an event_id: one issue, count 2
C22_Witness ==
    /\ QualityChecked
    /\ Len(valid_df) = 3
    /\ Cardinality(DuplicatedRows) = 2
    /\ Len(SelectSeq(metrics.quality_issues, IsDuplicatesIssue)) = 1

\* validated rows with distinct event_ids: no "duplicates" issue
C22_WitnessDistinct ==
    /\ QualityChecked
    /\ Len(valid_df) = 2
    /\ DuplicatedRows = {}
    /\ SelectSeq(metrics.quality_issues, IsDuplicatesIssue) = <<>>

\* C23: revenue is purchase-only in every output of _transform: a session,
\* date or product row with total_revenue > 0 has purchases > 0.
C23_RevenuePurchaseOnly ==
    pc = "Loading" =>
        \A row \in tables.fct_sessions \cup tables.fct_daily_metrics
                    \cup tables.fct_product_performance :
            row.total_revenue > 0 => row.purchases > 0

\* the generator gives revenue to purchase events only
C23_GeneratedRevenuePurchaseOnly ==
    \A i \in DOMAIN events : events[i].revenue > 0 => events[i].event_type = "purchase"

\* generate() has produced a purchase with revenue
C23_GeneratedPurchase ==
    /\ gen_pc = "done"
    /\ \E i \in DOMAIN gen_df : gen_df[i].event_type = "purchase" /\ gen_df[i].revenue > 0

\* C24: after a failed run on a new ETLPipeline, metrics.errors holds exactly
\* one entry, whatever the cause of the failure.
C24_ExactlyOneError ==
    pc = "Failed" => Len(metrics.errors) = 1

\* C24 for every cause but the threshold breach
C24_OneErrorUnlessThreshold ==
    (pc = "Failed" /\ failed_in # "Validating") => Len(metrics.errors) = 1

\* a threshold breach is in metrics.errors twice
C24_ThresholdRecordedTwice ==
    /\ pc = "Failed"
    /\ failed_in = "Validating"
    /\ Len(metrics.errors) = 2
    /\ metrics.errors[1] = metrics.errors[2]

RECURSIVE SumEventCount(_)
\* the sum of event_count over a set of session rows
SumEventCount(rows) ==
    IF rows = {} THEN 0
    ELSE LET r == CHOOSE x \in rows : TRUE
         IN r.event_count + SumEventCount(rows \ {r})

RECURSIVE SumTotalEvents(_)
\* the sum of total_events over a set of daily rows
SumTotalEvents(rows) ==
    IF rows = {} THEN 0
    ELSE LET r == CHOOSE x \in rows : TRUE
         IN r.total_events + SumTotalEvents(rows \ {r})

\* the sum of the revenue column of fct_events
SumEventRevenue == SumSeq([i \in DOMAIN tables.fct_events |-> tables.fct_events[i].revenue])

C25_WitnessSessionOverMidnight ==
    /\ pc = "Loading"
    /\ Cardinality(tables.fct_sessions) = 1
    /\ Cardinality(tables.fct_daily_metrics) = 2
    /\ SumEventRevenue > 0

\* the rows of fct_product_performance that event e belongs to
ProductRowsOf(e) ==
    {row \in tables.fct_product_performance :
        row.product_id = e.product_id /\ row.category = e.category}

\* C26: every validated event with a product_id belongs to exactly one row
\* of fct_product_performance, whether or not it has a category, and a
\* product table that is present has at least one row.
C26_EveryProductEventCounted ==
    pc = "Loading" =>
        /\ \A i \in DOMAIN valid_df :
               valid_df[i].product_id # NULL =>
                   Cardinality(ProductRowsOf(valid_df[i])) = 1
        /\ "fct_product_performance" \in {tables.names[n] : n \in DOMAIN tables.names} =>
               Cardinality(tables.fct_product_performance) >= 1

\* C26 for the events that carry a category
C26_CountedWhenCategoryGiven ==
    pc = "Loading" =>
        \A i \in DOMAIN valid_df :
            (valid_df[i].product_id # NULL /\ valid_df[i].category # NULL) =>
                Cardinality(ProductRowsOf(valid_df[i])) = 1

\* a remove_from_cart event with a product_id and no category next to a
\* product event with a category: the table has a row, none for the former
C26_NullCategoryDropped ==
    /\ pc = "Loading"
    /\ Cardinality(tables.fct_product_performance) = 1
    /\ \E i \in DOMAIN valid_df :
          /\ valid_df[i].event_type = "remove_from_cart"
          /\ valid_df[i].product_id # NULL
          /\ ProductRowsOf(valid_df[i]) = {}

\* the names of the tables _transform returned
TransformedNames == {tables.names[n] : n \in DOMAIN tables.names}

\* the sum of the row counts of the tables _transform returned (a table
\* that is absent has no rows)
RowsOfAllTables ==
    Len(tables.fct_events) + Cardinality(tables.fct_sessions)
        + Cardinality(tables.fct_daily_metrics)
        + Cardinality(tables.fct_product_performance)

\* C27: on a successful run records_validated <= records_extracted, every
\* transformed table was written, and records_loaded is the sum of the row
\* counts of all of them, hence at least records_validated.
C27_RecordsLoadedSumsAllTables ==
    pc = "Done" =>
        /\ metrics.records_validated <= metrics.records_extracted
        /\ {"fct_events", "fct_sessions", "fct_daily_metrics"} \subseteq TransformedNames
        /\ parquet_files = TransformedNames
        /\ db_tables = TransformedNames
        /\ metrics.records_loaded = RowsOfAllTables
        /\ metrics.records_loaded >= metrics.records_validated
        /\ metrics.records_validated = Len(tables.fct_events)

\* a successful run with a product table: more records loaded than events
C27_Witness ==
    /\ pc = "Done"
    /\ "fct_product_performance" \in TransformedNames
    /\ Cardinality(tables.fct_product_performance) >= 1
    /\ metrics.records_validated < metrics.records_extracted
    /\ metrics.records_loaded > metrics.records_validated

\* a successful run without a product table
C27_WitnessThreeTables ==
    /\ pc = "Done"
    /\ "fct_product_performance" \notin TransformedNames
    /\ metrics.records_loaded = RowsOfAllTables

\* _validate on a batch without records and a positive minimum fails the run
\* at the gate with rate 0; with minimum 0 a batch without a valid record
\* passes the gate with an empty valid batch
EmptyBatchAtGate ==
    /\ (pc = "Validating" /\ raw_df = <<>> /\ config.min_validity_rate > 0) =>
           /\ pc' = "Failed"
           /\ failed_in' = "Validating"
           /\ metrics'.validity_rate = Exact(0, 1)
    /\ (/\ pc = "Validating"
        /\ raw_df # <<>>
        /\ \A i \in DOMAIN raw_df : ~EventSchema(raw_df[i])
        /\ config.min_validity_rate = 0) =>
           /\ pc' = "QualityChecking"
           /\ valid_df' = <<>>
           /\ metrics'.validity_rate.num = 0
           /\ metrics'.validity_rate.err.num = 0

\* the empty valid batch goes on from the gate to _transform
EmptyBatchReachesTransform ==
    (pc = "QualityChecking" /\ valid_df = <<>> /\ config.min_validity_rate = 0) =>
        pc' = "Transforming"

\* C28: a batch of zero records has validity rate 0 and fails the run at the
\* gate for every min_validity_rate > 0; with min_validity_rate = 0 a batch
\* whose records are all invalid passes the gate and reaches _transform with
\* an empty valid batch.
C28_EmptyBatch == [][EmptyBatchAtGate /\ EmptyBatchReachesTransform]_vars

\* C28 up to the gate
C28_EmptyBatchGate == [][EmptyBatchAtGate]_vars

\* C28 after the gate, for runs with the quality checks switched off
C28_ReachesTransformWithoutChecks ==
    [][~config.enable_quality_checks => EmptyBatchReachesTransform]_vars

\* an all-invalid batch passed the gate at minimum 0 and the run failed in
\* the quality checks, before _transform
C28_StoppedBeforeTransform ==
    /\ pc = "Failed"
    /\ failed_in = "QualityChecking"
    /\ config.min_validity_rate = 0
    /\ metrics.records_extracted > 0
    /\ metrics.records_validated = 0
    /\ tables = NoTables

\* with the checks switched off the empty valid batch is in _transform
C28_EmptyBatchInTransform ==
    /\ pc = "Transforming"
    /\ valid_df = <<>>
    /\ metrics.records_extracted > 0

\* a batch of zero records failed at the gate
C28_ZeroRecordsFailed ==
    /\ pc = "Failed"
    /\ failed_in = "Validating"
    /\ source # <<>>
    /\ metrics.records_extracted = 0

\* C29: when run() has ended, by success or by failure, the connection is
\* not open; it is closed whenever the database had been opened (the only
\* run that ends without a closed connection is the one whose
\* duckdb.connect failed, which never had one).
C29_ConnectionClosedAtEnd ==
    pc \in {"Done", "Failed"} =>
        /\ conn # "open"
        /\ (pc = "Done" \/ failed_in # "Idle") => conn = "closed"
        /\ conn = "none" => failed_in = "Idle"

\* a run that failed while loading, after writing a table, with the
\* connection closed
C29_Witness ==
    /\ pc = "Failed"
    /\ failed_in = "Loading"
    /\ db_tables # {}
    /\ conn = "closed"

\* a run that failed while the schemas were created, connection closed
C29_WitnessSchemaError ==
    /\ pc = "Failed"
    /\ failed_in = "Idle"
    /\ conn = "closed"

\* a successful run, connection closed
C29_WitnessDone ==
    /\ pc = "Done"
    /\ conn = "closed"

CheckOrder ==
    <<"duplicates", "null_rate", "revenue_outliers", "future_timestamps",
      "session_integrity">>
Rank(check) == CHOOSE n \in DOMAIN CheckOrder : CheckOrder[n] = check

\* the issues of a list come in the order of the five checks
InCheckOrder(issues) ==
    \A i, j \in DOMAIN issues : i < j => Rank(issues[i].check) <= Rank(issues[j].check)

\* C30: run_all_checks returns the issues in the order duplicates, null_rate,
\* revenue_outliers, future_timestamps, session_integrity, and every later
\* call on the same DataQualityChecker returns the same list of issues as
\* the first call did.
C30_RunAllChecksRepeatable ==
    /\ \A n \in DOMAIN checker.returned : InCheckOrder(checker.returned[n])
    /\ \A n \in DOMAIN checker.returned : checker.returned[n] = checker.returned[1]

\* the first call returns the issues in the order of the checks
C30_FirstCallInOrder ==
    checker.returned # <<>> => InCheckOrder(checker.returned[1])

\* a later call returns what the call before it returned followed by the
\* issues it found itself
C30_LaterCallAppends ==
    \A n \in DOMAIN checker.returned :
        n > 1 =>
            /\ Len(checker.returned[n]) >= Len(checker.returned[n - 1])
            /\ SubSeq(checker.returned[n], 1, Len(checker.returned[n - 1]))
                   = checker.returned[n - 1]

\* a first call that found issues of four kinds
C30_FourKindsInOrder ==
    /\ Len(checker.returned) = 1
    /\ {checker.returned[1][i].check : i \in DOMAIN checker.returned[1]}
           = {"duplicates", "null_rate", "revenue_outliers", "future_timestamps"}

\* two calls at the same time of day: the second returns every issue twice
C30_IssuesReportedTwice ==
    /\ Len(checker.returned) = 2
    /\ checker.returned[1] # <<>>
    /\ checker.returned[2] = checker.returned[1] \o checker.returned[1]

====
